---- MODULE Spec2Model ----
(***************************************************************************)
(* Schema registry and type-reflection core of async-graphql.              *)
(*                                                                         *)
(* Type reference strings are sequences of one-character strings, so that  *)
(* strip_suffix('!'), strip_prefix('[') and the slice rest[..len-1] act on  *)
(* characters exactly as in src/src/registry/mod.rs.  Field names and      *)
(* descriptions are never parsed and stay plain strings.                   *)
(***************************************************************************)
EXTENDS Integers, Sequences, FiniteSets, TLC

VARIABLES
    types,        \* Registry.types: the catalog, a set of entries [k, v]
    directives,   \* Registry.directives: set of entries [k, v]
    implements,   \* Registry.implements: set of entries [k, v], v a set of names
    query_type,   \* Registry.query_type
    phase,        \* "build" while the registry is populated, "frozen" after bootstrap
    status,       \* "ok", or "panicked" / "diverged" once an operation did not return
    replaced,     \* history: keys whose descriptor was overwritten as a whole, with cause
    input,        \* name algebra: the string (or pair of strings) handed to the function under study
    out,          \* name algebra: what the function returned
    inst,         \* resolver: the merged-object instance and the requested field
    res           \* resolver: the value resolve_field returned

vars == <<types, directives, implements, query_type, phase, status, replaced,
          input, out, inst, res>>

----------------------------------------------------------------------------
(* Bounds *)

MaxLen == 4          \* longest input string of the name-algebra specification

----------------------------------------------------------------------------
(* Characters and strings *)

Alphabet == {"a", "[", "]", "!"}

RECURSIVE StringsOfLen(_)
StringsOfLen(n) ==
    IF n = 0 THEN {<<>>}
    ELSE {Append(s, c) : s \in StringsOfLen(n - 1), c \in Alphabet}

Strings == UNION {StringsOfLen(n) : n \in 0..MaxLen}

\* The type reference strings: a name, a reference followed by `!`, or a
\* reference in brackets.
RECURSIVE IsTypeRef(_)
IsTypeRef(s) ==
    /\ Len(s) > 0
    /\ \/ \A i \in 1..Len(s) : s[i] \notin {"[", "]", "!"}
       \/ s[Len(s)] = "!" /\ IsTypeRef(SubSeq(s, 1, Len(s) - 1))
       \/ s[1] = "[" /\ s[Len(s)] = "]" /\ IsTypeRef(SubSeq(s, 2, Len(s) - 1))

TypeRefs == {s \in Strings : IsTypeRef(s)}

sString  == <<"S","t","r","i","n","g">>
sInt     == <<"I","n","t">>
sAny     == <<"_","A","n","y">>
sService == <<"_","S","e","r","v","i","c","e">>
sEntity  == <<"_","E","n","t","i","t","y">>
sEdge    == <<"E","d","g","e">>
sTail    == <<"M","e","r","g","e","d","O","b","j","e","c","t","T","a","i","l">>

\* Option<T> results of the string helpers; panic marks a call that did not return.
None    == [panic |-> FALSE, some |-> FALSE, v |-> <<>>]
Some(x) == [panic |-> FALSE, some |-> TRUE,  v |-> x]
Panic   == [panic |-> TRUE,  some |-> FALSE, v |-> <<>>]

\* str::strip_suffix('!')
strip_suffix_bang(s) ==
    IF Len(s) > 0 /\ s[Len(s)] = "!" THEN Some(SubSeq(s, 1, Len(s) - 1)) ELSE None

\* A mutant of strip_brackets: keeps the closing bracket.
strip_brackets_keep_last(type_name) ==
    IF Len(type_name) > 0 /\ type_name[1] = "["
    THEN Some(Tail(type_name))
    ELSE None

\* strip_brackets: rest[..rest.len() - 1] underflows (and panics) on an empty rest.
strip_brackets(type_name) ==
    IF Len(type_name) > 0 /\ type_name[1] = "["
    THEN LET rest == Tail(type_name)
         IN  IF Len(rest) = 0 THEN Panic
             ELSE Some(SubSeq(rest, 1, Len(rest) - 1))
    ELSE None

\* MetaTypeName values; panic marks that create did not return.
MTN(tag, name) == [panic |-> FALSE, tag |-> tag, name |-> name]
MTNPanic       == [panic |-> TRUE, tag |-> "Named", name |-> <<>>]

MetaTypeName_create(type_name) ==
    LET nn == strip_suffix_bang(type_name)
    IN  IF nn.some THEN MTN("NonNull", nn.v)
        ELSE LET br == strip_brackets(type_name)
             IN  IF br.panic THEN MTNPanic
                 ELSE IF br.some THEN MTN("List", br.v)
                 ELSE MTN("Named", type_name)

\* impl Display for MetaTypeName
Display(mtn) ==
    CASE mtn.tag = "Named"   -> mtn.name
      [] mtn.tag = "NonNull" -> mtn.name \o <<"!">>
      [] mtn.tag = "List"    -> <<"[">> \o mtn.name \o <<"]">>

RECURSIVE concrete_typename(_)
concrete_typename(type_name) ==
    LET m == MetaTypeName_create(type_name)
    IN  IF m.panic THEN Panic
        ELSE IF m.tag = "Named" THEN Some(m.name)
        ELSE concrete_typename(m.name)

\* The result of is_subtype: a boolean, or panic when a nested create did not return.
SubResult(b) == [panic |-> FALSE, v |-> b]
SubPanic     == [panic |-> TRUE, v |-> FALSE]

RECURSIVE is_subtype(_, _)

\* A mutant of is_subtype: the mixed arm is written the other way round, a
\* non-null super accepting a nullable sub.
is_subtype_mixed_swapped(self, sub) ==
    IF self.panic \/ sub.panic THEN SubPanic
    ELSE IF \/ self.tag = "NonNull" /\ sub.tag = "NonNull"
            \/ self.tag = "NonNull" /\ sub.tag = "Named"
            \/ self.tag = "List" /\ sub.tag = "List"
    THEN is_subtype(MetaTypeName_create(self.name), MetaTypeName_create(sub.name))
    ELSE IF self.tag = "Named" /\ sub.tag = "Named"
    THEN SubResult(self.name = sub.name)
    ELSE SubResult(FALSE)

\* MetaTypeName::is_subtype
is_subtype(self, sub) ==
    IF self.panic \/ sub.panic THEN SubPanic
    ELSE IF \/ self.tag = "NonNull" /\ sub.tag = "NonNull"
            \/ self.tag = "Named" /\ sub.tag = "NonNull"
    THEN is_subtype(MetaTypeName_create(self.name), MetaTypeName_create(sub.name))
    ELSE IF self.tag = "Named" /\ sub.tag = "Named"
    THEN SubResult(self.name = sub.name)
    ELSE IF self.tag = "List" /\ sub.tag = "List"
    THEN is_subtype(MetaTypeName_create(self.name), MetaTypeName_create(sub.name))
    ELSE SubResult(FALSE)

----------------------------------------------------------------------------
(* IndexMap / HashMap as entries [k, v] *)

Entry(k, v) == [k |-> k, v |-> v]

\* A catalog is a set of entries (iteration order of Registry.types is not
\* read by any operation modelled here other than into a set).
contains_key(map, k) == \E e \in map : e.k = k

get(map, k) ==
    IF contains_key(map, k) THEN Some((CHOOSE e \in map : e.k = k).v) ELSE None

\* insert: replaces the value under an existing key, else adds the entry.
insert(map, k, v) == {e \in map : e.k # k} \cup {Entry(k, v)}

Keys(map) == {e.k : e \in map}

----------------------------------------------------------------------------
(* Ordered IndexMap (field maps, argument maps): a sequence of entries *)

RECURSIVE om_index(_, _, _)
om_index(map, k, i) ==
    IF i > Len(map) THEN 0
    ELSE IF map[i].k = k THEN i
    ELSE om_index(map, k, i + 1)

\* IndexMap::insert: an existing key keeps its position and takes the new
\* value, a new key goes to the end.
om_insert(map, k, v) ==
    LET i == om_index(map, k, 1)
    IN  IF i = 0 THEN Append(map, Entry(k, v))
        ELSE [map EXCEPT ![i] = Entry(k, v)]

\* IndexMap::extend: insert every entry of the other map, in its order.
RECURSIVE om_extend(_, _)
om_extend(map, other) ==
    IF other = <<>> THEN map
    ELSE om_extend(om_insert(map, Head(other).k, Head(other).v), Tail(other))

om_keys(map) == [i \in 1..Len(map) |-> map[i].k]

----------------------------------------------------------------------------
(* Meta descriptors *)

NoKeys       == [some |-> FALSE, v |-> <<>>]
SomeKeys(ks) == [some |-> TRUE, v |-> ks]

MetaInputValue(name, ty) == [name |-> name, ty |-> ty]

MetaField(name, description, args, ty) ==
    [name |-> name, description |-> description, args |-> args, ty |-> ty]

MetaType(kind, name, description, fields, possible_types, extends, keys) ==
    [kind |-> kind, name |-> name, description |-> description,
     fields |-> fields, possible_types |-> possible_types,
     extends |-> extends, keys |-> keys]

MetaScalar(name) == MetaType("Scalar", name, "", <<>>, {}, FALSE, NoKeys)

MetaObject(name, description, fields, extends, keys) ==
    MetaType("Object", name, description, fields, {}, extends, keys)

MetaInterface(name, fields, possible_types, extends, keys) ==
    MetaType("Interface", name, "", fields, possible_types, extends, keys)

MetaUnion(name, possible_types) ==
    MetaType("Union", name, "", <<>>, possible_types, FALSE, NoKeys)

MetaEnum(name) == MetaType("Enum", name, "", <<>>, {}, FALSE, NoKeys)

MetaInputObject(name) == MetaType("InputObject", name, "", <<>>, {}, FALSE, NoKeys)

\* MetaType::name
name_of(d) == d.name

\* MetaType::is_abstract
is_abstract(d) == d.kind \in {"Interface", "Union"}

\* MetaType::is_possible_type
is_possible_type(d, type_name) ==
    CASE d.kind \in {"Interface", "Union"} -> type_name \in d.possible_types
      [] d.kind = "Object"                 -> d.name = type_name
      [] OTHER                             -> FALSE

\* MetaType::possible_types, None read as no names
possible_types(d) == IF is_abstract(d) THEN d.possible_types ELSE {}

\* A mutant of type_overlap: the concrete-with-abstract arm is missing and
\* falls to false.
type_overlap_no_concrete_abstract(self, ty) ==
    IF self.k = ty.k THEN TRUE
    ELSE CASE is_abstract(self.v) /\ is_abstract(ty.v) ->
                  \E type_name \in possible_types(self.v) : is_possible_type(ty.v, type_name)
           [] is_abstract(self.v) /\ ~is_abstract(ty.v) ->
                  is_possible_type(self.v, name_of(ty.v))
           [] OTHER -> FALSE

\* MetaType::type_overlap.  self and ty are catalog entries; the two
\* references point to the same MetaType exactly when they are the same entry.
type_overlap(self, ty) ==
    IF self.k = ty.k THEN TRUE
    ELSE CASE is_abstract(self.v) /\ is_abstract(ty.v) ->
                  \E type_name \in possible_types(self.v) : is_possible_type(ty.v, type_name)
           [] is_abstract(self.v) /\ ~is_abstract(ty.v) ->
                  is_possible_type(self.v, name_of(ty.v))
           [] ~is_abstract(self.v) /\ is_abstract(ty.v) ->
                  is_possible_type(ty.v, name_of(self.v))
           [] OTHER -> FALSE

\* The fake type create_type inserts before it calls the builder.
Placeholder == MetaObject(<<>>, "", <<>>, FALSE, NoKeys)

----------------------------------------------------------------------------
(* The application's types: what the derive macros are applied to *)

Ref(id)      == [k |-> "ref", id |-> id]
OptionOf(t)  == [k |-> "option", of |-> t]
BTreeSetOf(t) == [k |-> "set", of |-> t]
Edge(t, e)   == [k |-> "edge", node |-> t, ext |-> e]
MergedObject(a, b) == [k |-> "chain", a |-> a, b |-> b]
MergedObjectTail == [k |-> "tail"]

F(n, t) == [n |-> n, t |-> t]

Decl(id) ==
    CASE id = "String" -> [k |-> "scalar", name |-> sString]
      [] id = "Int"    -> [k |-> "scalar", name |-> sInt]
      [] id = "Any"    -> [k |-> "scalar", name |-> sAny]
      [] id = "Q" -> [k |-> "object", name |-> <<"Q">>, extends |-> FALSE,
                      fields |-> <<F("me", OptionOf(Ref("U"))), F("name", Ref("String"))>>]
      [] id = "U" -> [k |-> "object", name |-> <<"U">>, extends |-> FALSE,
                      fields |-> <<F("id", Ref("Int"))>>]
      [] id = "N" -> [k |-> "object", name |-> <<"N">>, extends |-> FALSE,
                      fields |-> <<F("children", BTreeSetOf(Ref("N"))),
                                   F("peer", OptionOf(Ref("P")))>>]
      [] id = "P" -> [k |-> "object", name |-> <<"P">>, extends |-> FALSE,
                      fields |-> <<F("back", Ref("N"))>>]
      [] id = "X" -> [k |-> "object", name |-> <<"X">>, extends |-> FALSE,
                      fields |-> <<F("score", Ref("Int"))>>]
      [] id = "Y" -> [k |-> "object", name |-> <<"Y">>, extends |-> FALSE,
                      fields |-> <<F("rank", Ref("Int")),
                                   F("next", Edge(Ref("N"), Ref("Y")))>>]
      [] id = "H" -> [k |-> "object", name |-> <<"H">>, extends |-> FALSE,
                      fields |-> <<F("page", Edge(BTreeSetOf(Ref("U")), Ref("X")))>>]
      [] id = "A" -> [k |-> "object", name |-> <<"A">>, extends |-> FALSE,
                      fields |-> <<F("a1", Ref("Int")), F("a2", Ref("String"))>>]
      [] id = "B" -> [k |-> "object", name |-> <<"B">>, extends |-> FALSE,
                      fields |-> <<F("b1", Ref("Int"))>>]
      [] id = "I" -> [k |-> "interface", name |-> <<"I">>, extends |-> FALSE,
                      fields |-> <<F("id", Ref("Int"))>>,
                      possible |-> <<Ref("U")>>]
      [] id = "M" -> [k |-> "merged", name |-> <<"M">>, extends |-> TRUE,
                      sources |-> <<Ref("A"), Ref("B")>>]

Kind(t) == IF t.k = "ref" THEN Decl(t.id).k ELSE t.k

\* The types create_type_info is called on from outside the registry.
EdgeN == Edge(Ref("N"), Ref("Y"))
Roots == {Ref("Q"), Ref("I"), Ref("Y"), Ref("H"), Ref("M"), EdgeN}

----------------------------------------------------------------------------
(* Type::type_name and Type::qualified_type_name *)

\* merged_type of the MergedObject derive: the chain type is folded over the
\* struct's fields, each field's type wrapping the chain built so far.
RECURSIVE merged_type_from(_, _, _)
merged_type_from(typesOfFields, i, obj) ==
    IF i > Len(typesOfFields) THEN obj
    ELSE merged_type_from(typesOfFields, i + 1, MergedObject(typesOfFields[i], obj))

merged_type(typesOfFields) == merged_type_from(typesOfFields, 1, MergedObjectTail)

RECURSIVE TypeName(_)
RECURSIVE QualifiedTypeName(_)

TypeName(t) ==
    CASE t.k = "ref"    -> Decl(t.id).name
      [] t.k = "option" -> TypeName(t.of)
      [] t.k = "set"    -> <<"[">> \o QualifiedTypeName(t.of) \o <<"]">>
      [] t.k = "edge"   -> TypeName(t.node) \o sEdge
      [] t.k = "chain"  -> TypeName(t.a) \o <<"_">> \o TypeName(t.b)
      [] t.k = "tail"   -> sTail

\* A mutant of qualified_type_name: Option<T> does not override the default
\* and gets the trailing `!`.
QualifiedTypeName_default(t) ==
    CASE t.k = "set" -> <<"[">> \o QualifiedTypeName(t.of) \o <<"]", "!">>
      [] OTHER       -> TypeName(t) \o <<"!">>

QualifiedTypeName(t) ==
    CASE t.k = "option" -> TypeName(t.of)
      [] t.k = "set"    -> <<"[">> \o QualifiedTypeName(t.of) \o <<"]", "!">>
      [] OTHER          -> TypeName(t) \o <<"!">>

\* The string create_type_info returns for a type.
RECURSIVE ReturnedName(_)
ReturnedName(t) ==
    CASE t.k = "option" -> TypeName(t.of)
      [] OTHER          -> QualifiedTypeName(t)

----------------------------------------------------------------------------
(* Registry operations.  An operation acts on a record m that carries the  *)
(* registry fields it writes (types, implements) together with the run's   *)
(* bookkeeping: status, the nesting depth of builders, the names whose     *)
(* builder is in progress, and what the run did (for the properties).      *)

MaxDepth == 9        \* deepest nesting of builders a run may reach

Machine(ty, im, rp) ==
    [types |-> ty, implements |-> im, replaced |-> rp,
     status |-> "ok", depth |-> 0, inprog |-> {},
     reent |-> {}, ret |-> {}, builds |-> <<>>, phcopy |-> {}]

\* History of whole-descriptor overwrites: one record per key and cause, the
\* count saturating at 2.
Bump(rp, k, by) ==
    IF \E r \in rp : r.k = k /\ r.by = by
    THEN {IF r.k = k /\ r.by = by THEN [r EXCEPT !.n = 2] ELSE r : r \in rp}
    ELSE rp \cup {[k |-> k, by |-> by, n |-> 1]}

\* A mutant of add_implements: the entry is modified when present and never
\* created (and_modify without or_insert).
add_implements_modify_only(m, ty, interface) ==
    IF contains_key(m.implements, ty)
    THEN [m EXCEPT !.implements =
              insert(m.implements, ty, get(m.implements, ty).v \cup {interface})]
    ELSE m

\* Registry::add_implements
add_implements(m, ty, interface) ==
    IF contains_key(m.implements, ty)
    THEN [m EXCEPT !.implements =
              insert(m.implements, ty, get(m.implements, ty).v \cup {interface})]
    ELSE [m EXCEPT !.implements = insert(m.implements, ty, {interface})]

RECURSIVE CreateTypeInfo(_, _)
RECURSIVE create_type(_, _)
RECURSIVE Builder(_, _)
RECURSIVE RegisterFields(_, _, _)
RECURSIVE RegisterPossible(_, _, _, _)

\* The fields of the entry under name when it is an Object, as the
\* composition builders read it; "found" tells whether the pattern matched.
ObjectFieldsOf(m, name) ==
    LET e == get(m.types, name)
    IN  IF e.some /\ e.v.kind = "Object"
        THEN [found |-> TRUE, fields |-> e.v.fields]
        ELSE [found |-> FALSE, fields |-> <<>>]

\* Bookkeeping: a composition read the entry under name while that name's
\* builder had not returned yet.
NoteCopy(m, name) ==
    IF name \in m.inprog THEN [m EXCEPT !.phcopy = @ \cup {name}] ELSE m

\* A field list as the Object and Interface derives emit it: each field's
\* type is registered and the string it returns is stored as the field's ty.
RegisterFields(fs, i, m) ==
    IF i > Len(fs) THEN m ELSE RegisterFields(fs, i + 1, CreateTypeInfo(fs[i].t, m))

DeclaredFields(fs) ==
    [i \in 1..Len(fs) |->
        Entry(fs[i].n, MetaField(fs[i].n, "", <<>>, ReturnedName(fs[i].t)))]

\* The Interface derive registers every possible type and records the
\* implements edge for it.
RegisterPossible(ps, i, name, m) ==
    IF i > Len(ps) THEN m
    ELSE RegisterPossible(ps, i + 1, name,
            add_implements(CreateTypeInfo(ps[i], m), TypeName(ps[i]), name))

\* scalar.rs: the builder of a Scalar.
ScalarBuilder(t, m) == [m |-> m, ty |-> MetaScalar(TypeName(t))]

ObjectBuilder(t, m) ==
    LET d == Decl(t.id)
    IN  [m  |-> RegisterFields(d.fields, 1, m),
         ty |-> MetaObject(d.name, "", DeclaredFields(d.fields), d.extends, NoKeys)]

InterfaceBuilder(t, m) ==
    LET d  == Decl(t.id)
        m1 == RegisterPossible(d.possible, 1, d.name, m)
    IN  [m  |-> RegisterFields(d.fields, 1, m1),
         ty |-> MetaInterface(d.name, DeclaredFields(d.fields),
                              {TypeName(d.possible[i]) : i \in 1..Len(d.possible)},
                              d.extends, NoKeys)]

\* edge.rs, the closure of Edge::create_type_info.
EdgeBuilder(t, m) ==
    LET m1 == CreateTypeInfo(t.ext, m)
        e  == ObjectFieldsOf(m1, TypeName(t.ext))
        m2 == NoteCopy(m1, TypeName(t.ext))
        m3 == CreateTypeInfo(t.node, m2)
        m4 == CreateTypeInfo(Ref("String"), m3)
        f1 == om_insert(<<>>, "node",
                  MetaField("node", "The item at the end of the edge", <<>>,
                            ReturnedName(t.node)))
        f2 == om_insert(f1, "cursor",
                  MetaField("cursor", "A cursor for use in pagination", <<>>,
                            ReturnedName(Ref("String"))))
    IN  IF m1.status # "ok" THEN [m |-> m1, ty |-> Placeholder]
        ELSE IF ~e.found      \* unreachable!()
        THEN [m |-> [m1 EXCEPT !.status = "panicked"], ty |-> Placeholder]
        ELSE [m  |-> m4,
              ty |-> MetaObject(TypeName(t), "An edge in a connection.",
                                om_extend(f2, e.fields), FALSE, NoKeys)]

\* merged_object.rs, the closure of the derived create_type_info.
MergedBuilder(t, m) ==
    LET d     == Decl(t.id)
        chain == merged_type(d.sources)
        m1    == CreateTypeInfo(chain, m)
        e     == ObjectFieldsOf(m1, TypeName(chain))
        m2    == NoteCopy(m1, TypeName(chain))
    IN  [m  |-> m2,
         ty |-> MetaObject(d.name, "", IF e.found THEN e.fields ELSE <<>>,
                           d.extends, NoKeys)]

\* The binary combinator Merged(A, B): the fields of A, then the fields of B.
ChainBuilder(t, m) ==
    LET m1 == CreateTypeInfo(t.a, m)
        ea == ObjectFieldsOf(m1, TypeName(t.a))
        m2 == CreateTypeInfo(t.b, NoteCopy(m1, TypeName(t.a)))
        eb == ObjectFieldsOf(m2, TypeName(t.b))
        m3 == NoteCopy(m2, TypeName(t.b))
    IN  [m  |-> m3,
         ty |-> MetaObject(TypeName(t), "",
                           om_extend(om_extend(<<>>, ea.fields), eb.fields),
                           FALSE, NoKeys)]

\* The identity object that ends a chain: no fields.
TailBuilder(t, m) == [m |-> m, ty |-> MetaObject(sTail, "", <<>>, FALSE, NoKeys)]

\* The closure f handed to create_type by each kind of type.
Builder(t, m) ==
    CASE Kind(t) = "scalar"    -> ScalarBuilder(t, m)
      [] Kind(t) = "object"    -> ObjectBuilder(t, m)
      [] Kind(t) = "interface" -> InterfaceBuilder(t, m)
      [] Kind(t) = "merged"    -> MergedBuilder(t, m)
      [] Kind(t) = "edge"      -> EdgeBuilder(t, m)
      [] Kind(t) = "chain"     -> ChainBuilder(t, m)
      [] Kind(t) = "tail"      -> TailBuilder(t, m)

\* A mutant of create_type: the builder's result is dropped and the
\* placeholder stays.
create_type_keep_placeholder(t, m) ==
    LET name == TypeName(t)
    IN  IF m.status # "ok" THEN m
        ELSE IF contains_key(m.types, name)
        THEN [m EXCEPT !.reent = @ \cup ({name} \cap m.inprog)]
        ELSE IF m.depth >= MaxDepth THEN [m EXCEPT !.status = "diverged"]
        ELSE LET r == Builder(t, [m EXCEPT !.types = insert(@, name, Placeholder),
                                           !.depth = @ + 1,
                                           !.inprog = @ \cup {name},
                                           !.builds = Append(@, name)])
             IN  IF r.m.status # "ok" THEN r.m
                 ELSE [r.m EXCEPT !.depth = @ - 1,
                                  !.inprog = @ \ {name},
                                  !.ret = @ \cup {Entry(name, r.ty)}]

\* A mutant of create_type: only a placeholder counts as already registered,
\* so a finished type is built and written again whenever it is referenced.
create_type_rebuild(t, m) ==
    LET name == TypeName(t)
    IN  IF m.status # "ok" THEN m
        ELSE IF contains_key(m.types, name) /\ get(m.types, name).v = Placeholder
        THEN [m EXCEPT !.reent = @ \cup ({name} \cap m.inprog)]
        ELSE IF m.depth >= MaxDepth THEN [m EXCEPT !.status = "diverged"]
        ELSE LET r == Builder(t, [m EXCEPT !.types = insert(@, name, Placeholder),
                                           !.depth = @ + 1,
                                           !.inprog = @ \cup {name},
                                           !.builds = Append(@, name)])
             IN  IF r.m.status # "ok" THEN r.m
                 ELSE [r.m EXCEPT !.types = insert(@, name, r.ty),
                                  !.replaced = Bump(@, name, "create_type"),
                                  !.depth = @ - 1,
                                  !.inprog = @ \ {name},
                                  !.ret = {x \in @ : x.k # name} \cup {Entry(name, r.ty)}]

\* Registry::create_type.  A run that nests deeper than MaxDepth is cut
\* and marked "diverged".
create_type(t, m) ==
    LET name == TypeName(t)
    IN  IF m.status # "ok" THEN m
        ELSE IF contains_key(m.types, name)
        THEN [m EXCEPT !.reent = @ \cup ({name} \cap m.inprog)]
        ELSE IF m.depth >= MaxDepth THEN [m EXCEPT !.status = "diverged"]
        ELSE LET r == Builder(t, [m EXCEPT !.types = insert(@, name, Placeholder),
                                           !.depth = @ + 1,
                                           !.inprog = @ \cup {name},
                                           !.builds = Append(@, name)])
             IN  IF r.m.status # "ok" THEN r.m
                 ELSE IF ~contains_key(r.m.types, name)     \* get_mut(..).unwrap()
                 THEN [r.m EXCEPT !.status = "panicked"]
                 ELSE [r.m EXCEPT !.types = insert(@, name, r.ty),
                                  !.replaced = Bump(@, name, "create_type"),
                                  !.depth = @ - 1,
                                  !.inprog = @ \ {name},
                                  !.ret = @ \cup {Entry(name, r.ty)}]

\* Type::create_type_info of each kind of type.
CreateTypeInfo(t, m) ==
    CASE t.k = "option" -> CreateTypeInfo(t.of, m)
      [] t.k = "set"    -> CreateTypeInfo(t.of, m)
      [] OTHER          -> create_type(t, m)

----------------------------------------------------------------------------
(* Keys and the federation bootstrap *)

\* Registry::add_keys on the catalog
add_keys(tys, ty, keys) ==
    LET e == get(tys, ty)
    IN  IF e.some /\ e.v.kind \in {"Object", "Interface"}
        THEN insert(tys, ty,
                 [e.v EXCEPT !.keys = IF @.some THEN SomeKeys(Append(@.v, keys))
                                      ELSE SomeKeys(<<keys>>)])
        ELSE tys

IsEntity(d) ==
    d.kind \in {"Object", "Interface"} /\ d.keys.some /\ d.keys.v # <<>>

\* A mutant of has_entities: Interface entries are not looked at.
has_entities_objects_only(tys) ==
    \E e \in tys : e.v.kind = "Object" /\ e.v.keys.some /\ e.v.keys.v # <<>>

\* Registry::has_entities
has_entities(tys) == \E e \in tys : IsEntity(e.v)

\* self.types.insert(k, v), with the history of overwritten keys.
types_insert(m, k, v) ==
    [m EXCEPT !.types = insert(@, k, v),
              !.replaced = IF contains_key(m.types, k) THEN Bump(@, k, "insert") ELSE @]

\* Registry::create_entity_type
create_entity_type(m) ==
    types_insert(m, sEntity,
        MetaUnion(sEntity, {e.v.name : e \in {x \in m.types : IsEntity(x.v)}}))

ServiceType ==
    MetaObject(sService, "",
               om_insert(<<>>, "sdl", MetaField("sdl", "", <<>>, sString)),
               FALSE, NoKeys)

ServiceField == MetaField("_service", "", <<>>, sService \o <<"!">>)

EntitiesField ==
    MetaField("_entities", "",
              om_insert(<<>>, "representations",
                        MetaInputValue("representations",
                                       <<"[">> \o sAny \o <<"!", "]", "!">>)),
              <<"[">> \o sEntity \o <<"]", "!">>)

\* A mutant of create_federation_types: the two root fields are inserted in
\* the other order.
create_federation_types_swapped(m, qt) ==
    LET m1 == CreateTypeInfo(Ref("Any"), m)
        m2 == types_insert(m1, sService, ServiceType)
        m3 == create_entity_type(m2)
        root == get(m3.types, qt)
    IN  IF m1.status # "ok" THEN m1
        ELSE IF ~root.some THEN [m3 EXCEPT !.status = "panicked"]
        ELSE IF root.v.kind = "Object"
        THEN [m3 EXCEPT !.types = insert(@, qt,
                 [root.v EXCEPT !.fields =
                     om_insert(om_insert(@, "_entities", EntitiesField),
                               "_service", ServiceField)])]
        ELSE m3

\* Registry::create_federation_types
create_federation_types(m, qt) ==
    LET m1 == CreateTypeInfo(Ref("Any"), m)
        m2 == types_insert(m1, sService, ServiceType)
        m3 == create_entity_type(m2)
        root == get(m3.types, qt)
    IN  IF m1.status # "ok" THEN m1
        ELSE IF ~root.some THEN [m3 EXCEPT !.status = "panicked"]   \* unwrap()
        ELSE IF root.v.kind = "Object"
        THEN [m3 EXCEPT !.types = insert(@, qt,
                 [root.v EXCEPT !.fields =
                     om_insert(om_insert(@, "_service", ServiceField),
                               "_entities", EntitiesField)])]
        ELSE m3

----------------------------------------------------------------------------
(* The registry as a state machine *)

MaxKeys     == 1     \* longest key list add_keys may build on one type

Directives  == {[name |-> "skip", description |-> "Skip the field"]}
ImplPairs   == {<<(<<"Q">>), (<<"I">>)>>}
KeyTargets  == {<<"U">>, <<"I">>, sString}
KeySpecs    == {"id"}

NoOut  == [op |-> "none", panic |-> FALSE, some |-> FALSE, v |-> <<>>]
NoInst == [sources |-> <<>>, field |-> "none"]
NoRes  == [done |-> FALSE, some |-> FALSE, v |-> 0]

Init ==
    /\ types = {}
    /\ directives = {}
    /\ implements = {}
    /\ query_type = <<"Q">>
    /\ phase = "build"
    /\ status = "ok"
    /\ replaced = {}
    /\ input = <<>>
    /\ out = NoOut
    /\ inst = NoInst
    /\ res = NoRes

Running == phase = "build" /\ status = "ok"

\* The record an operation starts from: the registry as it is now.
Now == Machine(types, implements, replaced)

\* Takes the registry fields and the history from the record an operation left.
Commit(m) ==
    /\ types' = m.types
    /\ implements' = m.implements
    /\ replaced' = m.replaced
    /\ status' = m.status

DoCreateTypeInfo(t) ==
    /\ Running
    /\ Commit(CreateTypeInfo(t, Now))
    /\ UNCHANGED <<directives, query_type, phase, input, out, inst, res>>

\* Registry::add_directive
DoAddDirective(d) ==
    /\ Running
    /\ directives' = insert(directives, d.name, d)
    /\ UNCHANGED <<types, implements, query_type, phase, status, replaced,
                   input, out, inst, res>>

DoAddImplements(ty, interface) ==
    /\ Running
    /\ Commit(add_implements(Now, ty, interface))
    /\ UNCHANGED <<directives, query_type, phase, input, out, inst, res>>

DoAddKeys(ty, keys) ==
    /\ Running
    /\ LET e == get(types, ty)
       IN  e.some => Len(e.v.keys.v) < MaxKeys
    /\ types' = add_keys(types, ty, keys)
    /\ UNCHANGED <<directives, implements, query_type, phase, status, replaced,
                   input, out, inst, res>>

DoCreateFederationTypes ==
    /\ Running
    /\ Commit(create_federation_types(Now, query_type))
    /\ UNCHANGED <<directives, query_type, phase, input, out, inst, res>>

\* The end of schema construction: the federation types are created when the
\* catalog has entities, and the registry is read-only from then on.
Finish ==
    /\ Running
    /\ contains_key(types, query_type)
    /\ phase' = "frozen"
    /\ IF has_entities(types)
       THEN Commit(create_federation_types(Now, query_type))
       ELSE UNCHANGED <<types, implements, replaced, status>>
    /\ UNCHANGED <<directives, query_type, input, out, inst, res>>

Next ==
    \/ \E t \in Roots : DoCreateTypeInfo(t)
    \/ \E d \in Directives : DoAddDirective(d)
    \/ \E p \in ImplPairs : DoAddImplements(p[1], p[2])
    \/ \E ty \in KeyTargets, ks \in KeySpecs : DoAddKeys(ty, ks)
    \/ DoCreateFederationTypes

Spec == Init /\ [][Next]_vars

NextBoot ==
    \/ \E t \in Roots : DoCreateTypeInfo(t)
    \/ \E d \in Directives : DoAddDirective(d)
    \/ \E p \in ImplPairs : DoAddImplements(p[1], p[2])
    \/ \E ty \in KeyTargets, ks \in KeySpecs : DoAddKeys(ty, ks)
    \/ Finish

SpecBoot == Init /\ [][NextBoot]_vars

\* Option<T>::create_type_info called from outside the registry, for these T
OptionArgs ==
    {Ref("U"), Ref("X"), Ref("N"), Ref("A"), Ref("B"), Ref("Int"), Ref("String"),
     BTreeSetOf(Ref("U")), OptionOf(Ref("X"))}

RegisterOption(t) ==
    /\ Running
    /\ Commit(CreateTypeInfo(OptionOf(t), Now))
    /\ out' = [op |-> "create_type_info", t |-> t,
               r |-> [panic |-> FALSE, v |-> ReturnedName(OptionOf(t))]]
    /\ UNCHANGED <<directives, query_type, phase, input, inst, res>>

NextOption == \E t \in OptionArgs : RegisterOption(t)

SpecOption == Init /\ [][NextOption]_vars

----------------------------------------------------------------------------
(* Lookups and the name algebra as functions of their input *)

\* Registry::concrete_type_by_name
concrete_type_by_name(tys, type_name) ==
    LET c == concrete_typename(type_name)
    IN  IF c.panic THEN Panic ELSE get(tys, c.v)

NameCatalogs == {{}, {Entry(<<"a">>, MetaScalar(<<"a">>))}}

InitNames ==
    /\ types \in NameCatalogs
    /\ directives = {}
    /\ implements = {}
    /\ query_type = <<"Q">>
    /\ phase = "frozen"
    /\ status = "ok"
    /\ replaced = {}
    /\ input \in Strings
    /\ out = NoOut
    /\ inst = NoInst
    /\ res = NoRes

Returned(op, r) ==
    /\ out.op = "none"
    /\ out' = [op |-> op, r |-> r]
    /\ UNCHANGED <<types, directives, implements, query_type, phase, status,
                   replaced, input, inst, res>>

ApplyCreate == Returned("create", MetaTypeName_create(input))

ApplyConcreteTypename == Returned("concrete_typename", concrete_typename(input))

ApplyConcreteTypeByName ==
    Returned("concrete_type_by_name", concrete_type_by_name(types, input))

NextNames ==
    \/ ApplyCreate
    \/ ApplyConcreteTypename
    \/ ApplyConcreteTypeByName

SpecNames == InitNames /\ [][NextNames]_vars

\* is_subtype on a pair <<super, sub>> of type reference strings
InitSubtype ==
    /\ types = {}
    /\ directives = {}
    /\ implements = {}
    /\ query_type = <<"Q">>
    /\ phase = "frozen"
    /\ status = "ok"
    /\ replaced = {}
    /\ input \in TypeRefs \X TypeRefs
    /\ out = NoOut
    /\ inst = NoInst
    /\ res = NoRes

ApplyIsSubtype ==
    Returned("is_subtype",
             is_subtype(MetaTypeName_create(input[1]), MetaTypeName_create(input[2])))

NextSubtype == ApplyIsSubtype

SpecSubtype == InitSubtype /\ [][NextSubtype]_vars

\* type_overlap on two entries of a catalog holding one descriptor of every
\* kind but Object, two Objects, and any possible_types on the abstract ones
PossibleNames == {<<"a">>, <<"b">>, <<"s">>}

OverlapCatalog(pi, pu) ==
    {Entry(<<"s">>, MetaScalar(<<"s">>)),
     Entry(<<"a">>, MetaObject(<<"a">>, "", <<>>, FALSE, NoKeys)),
     Entry(<<"b">>, MetaObject(<<"b">>, "", <<>>, FALSE, NoKeys)),
     Entry(<<"e">>, MetaEnum(<<"e">>)),
     Entry(<<"n">>, MetaInputObject(<<"n">>)),
     Entry(<<"i">>, MetaInterface(<<"i">>, <<>>, pi, FALSE, NoKeys)),
     Entry(<<"u">>, MetaUnion(<<"u">>, pu))}

OverlapCatalogs ==
    {OverlapCatalog(pi, pu) : pi \in SUBSET PossibleNames, pu \in SUBSET PossibleNames}

InitOverlap ==
    /\ types \in OverlapCatalogs
    /\ directives = {}
    /\ implements = {}
    /\ query_type = <<"Q">>
    /\ phase = "frozen"
    /\ status = "ok"
    /\ replaced = {}
    /\ input \in {<<k1, k2>> : k1 \in Keys(types), k2 \in Keys(types)}
    /\ out = NoOut
    /\ inst = NoInst
    /\ res = NoRes

\* t.type_overlap(u) and u.type_overlap(t) for the entries t, u under the two keys
ApplyTypeOverlap ==
    LET t == CHOOSE e \in types : e.k = input[1]
        u == CHOOSE e \in types : e.k = input[2]
    IN  Returned("type_overlap",
                 [panic |-> FALSE, v |-> <<type_overlap(t, u), type_overlap(u, t)>>])

NextOverlap == ApplyTypeOverlap

SpecOverlap == InitOverlap /\ [][NextOverlap]_vars

----------------------------------------------------------------------------
(* Resolving a field on an instance of a derived merged object *)

MaxSources == 3      \* most source objects in one merged object

FieldNames == {"f", "g"}

\* A source object is given by the fields it recognizes; source i answers a
\* recognized field with Some(i).
SourceSeqs == UNION {[1..n -> SUBSET FieldNames] : n \in 1..MaxSources}

\* create_merged_obj of the MergedObject derive: MergedObject(&self.i, obj)
\* wraps the chain built so far, for i = 0, 1, ...
RECURSIVE create_merged_obj_from(_, _, _)
create_merged_obj_from(n, i, obj) ==
    IF i > n THEN obj
    ELSE create_merged_obj_from(n, i + 1, [k |-> "chain", a |-> i, b |-> obj])

create_merged_obj(n) == create_merged_obj_from(n, 1, [k |-> "tail"])

\* resolve_field of a source object
source_resolve_field(sources, i, field) ==
    IF field \in sources[i] THEN [some |-> TRUE, v |-> i] ELSE [some |-> FALSE, v |-> 0]

\* resolve_field of the chain: the first component is asked first and the
\* rest of the chain only when it answers None; the tail answers None.
RECURSIVE chain_resolve_field(_, _, _)
chain_resolve_field(obj, sources, field) ==
    IF obj.k = "tail" THEN [some |-> FALSE, v |-> 0]
    ELSE LET r == source_resolve_field(sources, obj.a, field)
         IN  IF r.some THEN r ELSE chain_resolve_field(obj.b, sources, field)

\* resolve_field of the derived merged object
resolve_field(sources, field) ==
    chain_resolve_field(create_merged_obj(Len(sources)), sources, field)

InitResolve ==
    /\ types = {}
    /\ directives = {}
    /\ implements = {}
    /\ query_type = <<"Q">>
    /\ phase = "frozen"
    /\ status = "ok"
    /\ replaced = {}
    /\ input = <<>>
    /\ out = NoOut
    /\ inst \in {[sources |-> ss, field |-> f] : ss \in SourceSeqs, f \in FieldNames}
    /\ res = NoRes

ResolveField ==
    /\ ~res.done
    /\ LET r == resolve_field(inst.sources, inst.field)
       IN  res' = [done |-> TRUE, some |-> r.some, v |-> r.v]
    /\ UNCHANGED <<types, directives, implements, query_type, phase, status,
                   replaced, input, out, inst>>

NextResolve == ResolveField

SpecResolve == InitResolve /\ [][NextResolve]_vars

----------------------------------------------------------------------------
(* Properties *)

EntriesUnder(tys, name) == {e \in tys : e.k = name}

FieldNamesOf(d) == [i \in 1..Len(d.fields) |-> d.fields[i].k]
FieldTypesOf(d) == [i \in 1..Len(d.fields) |-> d.fields[i].v.ty]

\* C1.  Cycle safety: when a create_type_info call registers its type and runs
\* a builder that calls create_type again for a name whose builder is still in
\* progress (the type's own name, or one on a cycle through it), the call
\* returns (it neither diverges nor panics), and afterwards the catalog holds
\* exactly one entry under that name, and it is the descriptor that name's
\* builder returned.
C1_CycleSafety ==
    [][\A t \in Roots :
          (TypeName(t) \in Keys(types') \ Keys(types) /\ DoCreateTypeInfo(t)) =>
              LET m == CreateTypeInfo(t, Now)
              IN  m.reent # {} =>
                    /\ status' = "ok"
                    /\ \A n \in m.reent :
                          /\ Cardinality(EntriesUnder(types', n)) = 1
                          /\ \A e \in EntriesUnder(types', n) :
                                /\ e.v # Placeholder
                                /\ Entry(n, e.v) \in m.ret]_vars

\* C1 witness: the self-referential N (children: [N!]!) and its partner P
\* (N.peer: P, P.back: N!) are registered, one entry each.
C1_Witness ==
    /\ status = "ok"
    /\ \E e \in types :
          /\ e.k = <<"N">>
          /\ FieldNamesOf(e.v) = <<"children", "peer">>
          /\ FieldTypesOf(e.v) = << <<"[", "N", "!", "]", "!">>, <<"P">> >>
    /\ \E e \in types : e.k = <<"P">> /\ FieldTypesOf(e.v) = << <<"N", "!">> >>

\* C2 as stated.  Registry lifecycle: no step removes a catalog key, and a
\* descriptor is overwritten as a whole at most once per key, and only by
\* create_type replacing its placeholder.
C2_Lifecycle ==
    [][/\ Keys(types) \subseteq Keys(types')
       /\ \A r \in replaced' : r.by = "create_type" /\ r.n = 1]_vars

\* C2 as amended.  No step removes a catalog key; create_type overwrites the
\* descriptor under a key at most once (the placeholder); the only other
\* whole-descriptor overwrites are those of _Service and _Entity by
\* create_federation_types when these keys are already in the catalog.
C2_LifecycleAmended ==
    [][/\ Keys(types) \subseteq Keys(types')
       /\ \A r \in replaced' :
             \/ r.by = "create_type" /\ r.n = 1
             \/ r.by = "insert" /\ r.k \in {sService, sEntity}]_vars

\* C2 witness: the federation types were created a second time over a
\* catalog that create_type had filled.
C2_Witness ==
    /\ status = "ok"
    /\ \E r \in replaced : r.by = "insert" /\ r.k = sEntity
    /\ \E r \in replaced : r.by = "create_type" /\ r.k = <<"U">>
    /\ \E e \in types : e.k = <<"U">> /\ e.v.keys.some

Resolves(tys, ty) ==
    LET r == concrete_type_by_name(tys, ty) IN ~r.panic /\ r.some

\* C3.  Closure: once registration has finished, the type of every field and
\* of every field argument of every catalog entry resolves through
\* concrete_type_by_name to a catalog entry.
C3_Closure ==
    (phase = "frozen" /\ status = "ok") =>
        \A e \in types :
            \A i \in 1..Len(e.v.fields) :
                /\ Resolves(types, e.v.fields[i].v.ty)
                /\ \A j \in 1..Len(e.v.fields[i].v.args) :
                      Resolves(types, e.v.fields[i].v.args[j].v.ty)

HasKeys(d) == d.kind \in {"Object", "Interface"} /\ d.keys.some /\ Len(d.keys.v) > 0

RootHasField(tys, qt, name) ==
    \E e \in tys : e.k = qt /\ \E i \in 1..Len(e.v.fields) : e.v.fields[i].k = name

\* C4.  Federation consistency: after bootstrap, _Service and _Entity are in
\* the catalog and _service and _entities are fields of the query root if
\* and only if some Object or Interface entry has a non-empty keys list; and
\* then _Entity is a Union over exactly the names of those entries.
C4_FederationConsistency ==
    (phase = "frozen" /\ status = "ok") =>
        LET ents == {e \in types : HasKeys(e.v)}
        IN  /\ (/\ contains_key(types, sService)
                /\ contains_key(types, sEntity)
                /\ RootHasField(types, query_type, "_service")
                /\ RootHasField(types, query_type, "_entities"))
               <=> (ents # {})
            /\ \A e \in EntriesUnder(types, sEntity) :
                  /\ e.v.kind = "Union"
                  /\ e.v.possible_types = {x.k : x \in ents}
                  /\ e.v.possible_types = {x.v.name : x \in ents}

\* C4 witness: bootstrap ended with an Object and an Interface as entities.
C4_Witness ==
    /\ phase = "frozen"
    /\ status = "ok"
    /\ \E e \in types :
          e.k = sEntity /\ e.v.possible_types = {<<"U">>, <<"I">>}

C6_MergedFieldOrder ==
    status = "ok" =>
        \A e \in EntriesUnder(types, <<"M">>) :
            /\ e.v.kind = "Object"
            /\ e.v.name = <<"M">>
            /\ e.v.extends = Decl("M").extends
            /\ ~e.v.keys.some
            /\ FieldNamesOf(e.v) = <<"a1", "a2", "b1">>
            /\ \E a \in EntriesUnder(types, <<"A">>), b \in EntriesUnder(types, <<"B">>) :
                  e.v.fields = a.v.fields \o b.v.fields

\* The first source, in declaration order, that recognizes the field.
FirstRecognizing(sources, field) ==
    IF \E i \in 1..Len(sources) : field \in sources[i]
    THEN [some |-> TRUE,
          v |-> CHOOSE i \in 1..Len(sources) :
                    /\ field \in sources[i]
                    /\ \A j \in 1..(i - 1) : field \notin sources[j]]
    ELSE [some |-> FALSE, v |-> 0]

\* C7.  Merged object resolution order: resolve_field on a merged object
\* returns the value of the first source, in declaration order, that answers
\* Some, and None when no source recognizes the field.
C7_ResolutionOrder ==
    res.done =>
        LET want == FirstRecognizing(inst.sources, inst.field)
        IN  res.some = want.some /\ res.v = want.v

\* The Edge types the application declares.
EdgeTypes == {EdgeN, Edge(BTreeSetOf(Ref("U")), Ref("X"))}

\* C8.  Edge synthesis: once Edge<C,T,E>::create_type_info has returned, the
\* entry named `${T}Edge` is an Object whose fields iterate as node (T's type
\* reference), cursor (String!), then the fields of E in E's declared order.
C8_EdgeSynthesis ==
    status = "ok" =>
        \A x \in EdgeTypes :
            \A e \in EntriesUnder(types, TypeName(x)) :
                /\ e.v.kind = "Object"
                /\ FieldNamesOf(e.v) =
                      <<"node", "cursor">> \o
                      [i \in 1..Len(Decl(x.ext.id).fields) |-> Decl(x.ext.id).fields[i].n]
                /\ e.v.fields[1].v.ty = ReturnedName(x.node)
                /\ e.v.fields[1].v.description = "The item at the end of the edge"
                /\ e.v.fields[2].v.ty = sString \o <<"!">>
                /\ e.v.fields[2].v.description = "A cursor for use in pagination"
                /\ \A i \in 1..Len(Decl(x.ext.id).fields) :
                      /\ Len(e.v.fields) >= i + 2
                      /\ e.v.fields[i + 2].v.ty = ReturnedName(Decl(x.ext.id).fields[i].t)

\* C9.  Lookups never fail: MetaTypeName::create, concrete_typename and
\* concrete_type_by_name return for every input string.
C9_LookupsNeverFail == out.op # "none" => ~out.r.panic

\* C10.  Name algebra round-trip: for every type reference string s,
\* MetaTypeName::create(s) returns and printing its value yields s.
C10_RoundTrip ==
    (out.op = "create" /\ IsTypeRef(input)) =>
        (~out.r.panic /\ Display(out.r) = input)

\* C10 witness: a list reference with a modifier inside was parsed.
C10_Witness ==
    /\ out.op = "create"
    /\ input = <<"[", "a", "!", "]">>
    /\ out.r.tag = "List"

\* The modifier kind of a type reference string and the reference inside it.
KindOf(s) ==
    IF s[Len(s)] = "!" THEN "NonNull"
    ELSE IF s[1] = "[" THEN "List"
    ELSE "Named"

InnerOf(s) ==
    IF KindOf(s) = "NonNull" THEN SubSeq(s, 1, Len(s) - 1)
    ELSE IF KindOf(s) = "List" THEN SubSeq(s, 2, Len(s) - 1)
    ELSE s

\* The relation the rules derive: super accepts sub.
RECURSIVE Accepts(_, _)
Accepts(super, sub) ==
    CASE KindOf(super) = "Named" /\ KindOf(sub) = "Named"     -> super = sub
      [] KindOf(super) = "NonNull" /\ KindOf(sub) = "NonNull" ->
             Accepts(InnerOf(super), InnerOf(sub))
      [] KindOf(super) = "Named" /\ KindOf(sub) = "NonNull"   ->
             Accepts(super, InnerOf(sub))
      [] KindOf(super) = "List" /\ KindOf(sub) = "List"       ->
             Accepts(InnerOf(super), InnerOf(sub))
      [] OTHER -> FALSE

IsSubtypeOf(super, sub) ==
    is_subtype(MetaTypeName_create(super), MetaTypeName_create(sub))

\* C11.  Subtype relation: for type reference strings super and sub,
\* is_subtype returns, and returns true exactly when the rules derive the
\* pair; it is true of (super, super), and when it is true of (super, sub) it
\* is true of (super!, sub!) and of ([super], [sub]).
C11_Subtype ==
    out.op = "is_subtype" =>
        /\ ~out.r.panic
        /\ out.r.v = Accepts(input[1], input[2])
        /\ IsSubtypeOf(input[1], input[1]) = SubResult(TRUE)
        /\ out.r.v =>
              /\ IsSubtypeOf(input[1] \o <<"!">>, input[2] \o <<"!">>) = SubResult(TRUE)
              /\ IsSubtypeOf(<<"[">> \o input[1] \o <<"]">>,
                             <<"[">> \o input[2] \o <<"]">>) = SubResult(TRUE)

\* C11 witness: the nullable list [a] accepted the list [a!] of non-null a.
C11_Witness ==
    /\ out.op = "is_subtype"
    /\ input = << <<"[", "a", "]">>, <<"[", "a", "!", "]">> >>
    /\ out.r.v

\* The interfaces recorded for an object name in the implements-map.
ImplementsOf(impl, o) == IF contains_key(impl, o) THEN get(impl, o).v ELSE {}

InterfaceEntries(tys) == {e \in tys : e.v.kind = "Interface"}

\* Every name that is a catalog key, a key of the implements-map or a
\* possible type of an Interface.
ObjectNames(tys, impl) ==
    Keys(tys) \cup Keys(impl) \cup UNION {e.v.possible_types : e \in InterfaceEntries(tys)}

PossibleImpliesImplements(tys, impl) ==
    \A e \in InterfaceEntries(tys) :
        \A o \in e.v.possible_types : e.k \in ImplementsOf(impl, o)

ImplementsConsistent(tys, impl) ==
    \A e \in InterfaceEntries(tys) :
        \A o \in ObjectNames(tys, impl) :
            (o \in e.v.possible_types) <=> (e.k \in ImplementsOf(impl, o))

\* C12 as stated.  Interface/implements consistency: in every registry state,
\* for every Interface entry I and every object name O, O is in
\* I.possible_types if and only if I is in the implements set of O.
C12_ImplementsConsistency == ImplementsConsistent(types, implements)

\* C12 as amended.  In every registry state every possible type O of an
\* Interface entry I has I in its implements set; and I is in the implements
\* set of O only when O is a possible type of I or the pair was recorded by a
\* direct add_implements(O, I) call, outside I's builder.
C12_ImplementsConsistencyAmended ==
    /\ PossibleImpliesImplements(types, implements)
    /\ \A e \in InterfaceEntries(types) :
          \A o \in ObjectNames(types, implements) :
              e.k \in ImplementsOf(implements, o) =>
                  \/ o \in e.v.possible_types
                  \/ <<o, e.k>> \in ImplPairs

\* C12 witness: the Interface I was registered with its possible type U, and
\* add_implements was also called directly for the object Q.
C12_Witness ==
    /\ status = "ok"
    /\ \E e \in types :
          e.k = <<"I">> /\ e.v.kind = "Interface" /\ e.v.possible_types = {<<"U">>}
    /\ ImplementsOf(implements, <<"U">>) = {<<"I">>}
    /\ ImplementsOf(implements, <<"Q">>) = {<<"I">>}

\* C13.  Type-overlap symmetry: for any two entries t and u of the catalog,
\* t.type_overlap(u) equals u.type_overlap(t).
C13_OverlapSymmetry ==
    out.op = "type_overlap" => out.r.v[1] = out.r.v[2]

\* C13 witness: the Object a was compared with the Interface i that lists it,
\* and they overlap.
C13_Witness ==
    /\ out.op = "type_overlap"
    /\ input = << <<"a">>, <<"i">> >>
    /\ out.r.v = <<TRUE, TRUE>>

\* The names whose builder ran during a call.
Built(m) == {m.builds[i] : i \in 1..Len(m.builds)}

\* C14.  Option lift naming: Option<T>::type_name() and
\* Option<T>::qualified_type_name() equal T::type_name();
\* Option<T>::create_type_info returns that string, leaves the catalog as
\* T::create_type_info leaves it, and every key it adds is a name T's
\* registration built, none under a name of Option's own.
C14_OptionLift ==
    [][\A t \in OptionArgs :
          RegisterOption(t) =>
              LET m == CreateTypeInfo(t, Now)
              IN  /\ TypeName(OptionOf(t)) = TypeName(t)
                  /\ QualifiedTypeName(OptionOf(t)) = TypeName(t)
                  /\ out'.r.v = TypeName(t)
                  /\ status' = "ok"
                  /\ types' = m.types
                  /\ Keys(types') \ Keys(types) = Built(m)
                  /\ \E c \in Keys(types') : concrete_typename(TypeName(t)) = Some(c)]_vars

\* C14 witness: Option<U>::create_type_info returned `U` on an empty
\* registry and registered U and the Int of its field.
C14_Witness ==
    /\ out.op = "create_type_info"
    /\ out.t = Ref("U")
    /\ out.r.v = <<"U">>
    /\ Keys(types) = {<<"U">>, sInt}

\* create_type(t) from the registry m0 ran no builder and left m0 as it was.
Memoized(t, m0) ==
    LET m == create_type(t, m0)
    IN  /\ m.status = "ok"
        /\ m.builds = <<>>
        /\ m.types = m0.types
        /\ m.implements = m0.implements
        /\ m.replaced = m0.replaced

NoDuplicates(seq) == \A i, j \in 1..Len(seq) : seq[i] = seq[j] => i = j

\* C15.  Memoization: in every registry state, create_type for a type whose
\* name keys the catalog, with a finished descriptor or with the placeholder,
\* runs no builder, leaves catalog and implements-map unchanged and returns
\* the qualified name; and every create_type_info call runs builders only for
\* names that did not key the catalog before it, each at most once.
C15_Memoization ==
    /\ [](status = "ok" =>
            \A t \in Roots :
                /\ ReturnedName(t) = QualifiedTypeName(t)
                /\ IF contains_key(types, TypeName(t))
                   THEN Memoized(t, Now)
                   ELSE Memoized(t, [Now EXCEPT
                                       !.types = insert(@, TypeName(t), Placeholder)]))
    /\ [][\A t \in Roots :
            (TypeName(t) \in Keys(types') \ Keys(types) /\ DoCreateTypeInfo(t)) =>
                LET m == CreateTypeInfo(t, Now)
                IN  /\ NoDuplicates(m.builds)
                    /\ Built(m) \cap Keys(types) = {}
                    /\ Built(m) = Keys(types') \ Keys(types)]_vars

\* C15 witness: Y and the edge NEdge of its field are registered, so that a
\* later Edge<N, Y>::create_type_info finds its name in the catalog.
C15_Witness ==
    /\ status = "ok"
    /\ {<<"Y">>, TypeName(EdgeN), <<"N">>} \subseteq Keys(types)
    /\ Memoized(EdgeN, Now)

HasFederationField(d) ==
    \E i \in 1..Len(d.fields) : d.fields[i].k \in {"_service", "_entities"}

\* C16.  Federation guard: when query_type keys no catalog entry, or keys an
\* entry that is not an Object, create_federation_types returns and no
\* catalog entry has a _service or an _entities field afterwards.
C16_FederationGuard ==
    [][(/\ DoCreateFederationTypes
        /\ \A e \in EntriesUnder(types, query_type) : e.v.kind # "Object")
       => /\ status' = "ok"
          /\ \A e \in types' : ~HasFederationField(e.v)]_vars

\* The fields a composition copied: those of an Edge entry after node and
\* cursor.
CopiedByEdge(d) == SubSeq(d.fields, 3, Len(d.fields))

\* C17.  Composition builders never copy from a placeholder: during a
\* create_type_info call no Edge or merged-object builder reads the entry of
\* a type whose builder is still in progress, and afterwards the fields each
\* Edge entry copied are the fields of its extension type's entry, and the
\* fields of M are those of its chain's entry.
C17_NoPlaceholderCopy ==
    [][\A t \in Roots :
          (TypeName(t) \in Keys(types') \ Keys(types) /\ DoCreateTypeInfo(t)) =>
              /\ CreateTypeInfo(t, Now).phcopy = {}
              /\ \A x \in EdgeTypes :
                    \A e \in EntriesUnder(types', TypeName(x)) :
                        \A ext \in EntriesUnder(types', TypeName(x.ext)) :
                            CopiedByEdge(e.v) = ext.v.fields
              /\ \A e \in EntriesUnder(types', <<"M">>) :
                    \A ch \in EntriesUnder(types', TypeName(merged_type(Decl("M").sources))) :
                        e.v.fields = ch.v.fields]_vars

====
